---- MODULE Spec2Model ----
(***************************************************************************)
(* The MPAS resource-estimation notebook as a state machine.               *)
(*                                                                         *)
(* The program's state is the IPython kernel's namespace `ns` (the names   *)
(* the code cells bind: the two functions, mesh_dict and the module        *)
(* variables).  One action per code cell, executable in any order and any  *)
(* number of times, plus one action per call of the two functions and per  *)
(* subscript of mesh_dict.                                                 *)
(*                                                                         *)
(* Numbers.  Python's int is unbounded and the notebook's products exceed  *)
(* 2^31, so a non-negative integer is a little-endian sequence of limbs    *)
(* in base 10^4 (no leading zero limb; zero is <<>>).  A float is modelled *)
(* as the exact signed rational [sgn, num, den] it approximates: the       *)
(* results are exact up to the floating-point tolerance the documentation  *)
(* allows.  Small ints (arguments, grid column counts) are TLA+ integers.  *)
(***************************************************************************)
EXTENDS Integers, Sequences, FiniteSets, TLC

\* ------------------------------------------------------------------------
\* Python int arithmetic on unbounded non-negative integers
\* ------------------------------------------------------------------------

\* limb base: 10^4, so that a limb product plus a carry stays below 2^31
Base == 100 * 100

RECURSIVE BigFromNat(_)
BigFromNat(n) ==
    IF n = 0 THEN <<>> ELSE <<n % Base>> \o BigFromNat(n \div Base)

RECURSIVE BigAddC(_, _, _)
BigAddC(a, b, c) ==
    IF a = <<>> /\ b = <<>>
    THEN (IF c = 0 THEN <<>> ELSE <<c>>)
    ELSE LET x == IF a = <<>> THEN 0 ELSE Head(a)
             y == IF b = <<>> THEN 0 ELSE Head(b)
             s == x + y + c
         IN  <<s % Base>> \o BigAddC(IF a = <<>> THEN <<>> ELSE Tail(a),
                                     IF b = <<>> THEN <<>> ELSE Tail(b),
                                     s \div Base)

BigAdd(a, b) == BigAddC(a, b, 0)

RECURSIVE BigMulLimb(_, _, _)
BigMulLimb(a, k, c) ==
    IF a = <<>>
    THEN (IF c = 0 THEN <<>> ELSE <<c>>)
    ELSE LET p == Head(a) * k + c
         IN  <<p % Base>> \o BigMulLimb(Tail(a), k, p \div Base)

BigShift(a) == IF a = <<>> THEN <<>> ELSE <<0>> \o a

RECURSIVE BigMul(_, _)
BigMul(a, b) ==
    IF a = <<>> \/ b = <<>>
    THEN <<>>
    ELSE BigAdd(IF Head(b) = 0 THEN <<>> ELSE BigMulLimb(a, Head(b), 0),
                BigShift(BigMul(a, Tail(b))))

RECURSIVE BigToNat(_)
BigToNat(a) == IF a = <<>> THEN 0 ELSE Head(a) + Base * BigToNat(Tail(a))

\* quotient and remainder of a by one limb k > 0, most significant limb first
RECURSIVE BigDivLimb(_, _)
BigDivLimb(a, k) ==
    IF a = <<>>
    THEN [q |-> <<>>, r |-> 0]
    ELSE LET hi  == BigDivLimb(Tail(a), k)
             cur == hi.r * Base + Head(a)
             ql  == cur \div k
         IN  [q |-> IF ql = 0 /\ hi.q = <<>> THEN <<>> ELSE <<ql>> \o hi.q,
              r |-> cur % k]

BigLess(a, b) ==
    \/ Len(a) < Len(b)
    \/ /\ Len(a) = Len(b)
       /\ \E i \in 1..Len(a) :
            /\ a[i] < b[i]
            /\ \A j \in (i+1)..Len(a) : a[j] = b[j]

\* ------------------------------------------------------------------------
\* Python float arithmetic, as exact signed rationals
\* ------------------------------------------------------------------------

Sign(i) == IF i > 0 THEN 1 ELSE IF i < 0 THEN -1 ELSE 0

Abs(i) == IF i < 0 THEN -i ELSE i

RatZero == [sgn |-> 0, num |-> <<>>, den |-> <<1>>]

\* the value of a Python int
RatInt(i) == [sgn |-> Sign(i), num |-> BigFromNat(Abs(i)), den |-> <<1>>]

\* a * b
RatMul(a, b) ==
    IF a.sgn * b.sgn = 0
    THEN RatZero
    ELSE [sgn |-> a.sgn * b.sgn,
          num |-> BigMul(a.num, b.num),
          den |-> BigMul(a.den, b.den)]

\* a / b for b # 0 (the caller raises ZeroDivisionError otherwise)
RatDiv(a, b) ==
    IF a.sgn = 0
    THEN RatZero
    ELSE [sgn |-> a.sgn * b.sgn,
          num |-> BigMul(a.num, b.den),
          den |-> BigMul(a.den, b.num)]

\* a + b for a, b >= 0
RatAdd(a, b) ==
    IF a.sgn = 0 THEN b
    ELSE IF b.sgn = 0 THEN a
    ELSE [sgn |-> 1,
          num |-> BigAdd(BigMul(a.num, b.den), BigMul(b.num, a.den)),
          den |-> BigMul(a.den, b.den)]

\* a == b (rationals are not kept in lowest terms)
RatEq(a, b) ==
    /\ a.sgn = b.sgn
    /\ BigMul(a.num, b.den) = BigMul(b.num, a.den)

\* the number of zero limbs at the low end of a
RECURSIVE LowZeros(_)
LowZeros(a) ==
    IF a = <<>> \/ Head(a) # 0 THEN 0 ELSE 1 + LowZeros(Tail(a))

\* floor(n / d) for d = k * Base^j with one limb k (every denominator the
\* notebook produces: products of 20, 10^6, 10^15 and 10^25)
BigFloorDiv(n, d) ==
    LET j == LowZeros(d)
        k == d[j + 1]
    IN  BigDivLimb(SubSeq(n, j + 1, Len(n)), k).q

\* round(x, 2) and np.round(x, 2) for x >= 0, in hundredths: the integer
\* nearest to 100 * x, a tie going to the even one
Round2(x) ==
    LET n    == BigMul(x.num, BigFromNat(100))
        d    == x.den
        q    == BigFloorDiv(n, d)
        twoN == BigMulLimb(n, 2, 0)
        mid  == BigMul(BigAdd(BigMulLimb(q, 2, 0), <<1>>), d)
        f    == BigToNat(q)
    IN  IF BigLess(mid, twoN) THEN f + 1
        ELSE IF BigLess(twoN, mid) THEN f
        ELSE IF f % 2 = 0 THEN f ELSE f + 1

\* ------------------------------------------------------------------------
\* The kernel namespace
\* ------------------------------------------------------------------------

VARIABLES
    ns,           \* the kernel's global namespace: name -> tagged value
    last,         \* the most recent execution: [op, args, out]
    lastExample   \* which of the two example cells was executed most recently

vars == <<ns, last, lastExample>>

Names ==
    {"np", "calculate_core_hours_per_time_step_per_grid_point", "mesh_dict",
     "dx", "total_core_hours_used", "time_step", "grid_columns",
     "vertical_levels", "simulation_length",
     "core_hours_per_time_step_per_grid_point_calculated",
     "calculate_core_hours", "mesh", "core_hours_per_time_step_per_grid_point",
     "total_core_hours", "nvars_2d", "nvars_3d", "outputs_per_day_2d",
     "outputs_per_day_3d", "storage_2d", "storage_3d"}

\* tagged values of the namespace
Undef    == [t |-> "undef"]
Module   == [t |-> "module"]
Fn       == [t |-> "function"]
PyInt(i) == [t |-> "int", v |-> i]
PyBig(b) == [t |-> "bigint", v |-> b]
PyNum(r) == [t |-> "float", v |-> r]
PyStr(x) == [t |-> "str", v |-> x]
PyDict(d) == [t |-> "dict", v |-> d]

Bound(g, name) == g[name].t # "undef"

\* outcomes of an execution
Ok        == [kind |-> "ok"]
Value(r)  == [kind |-> "value", val |-> r]
Entry(e)  == [kind |-> "entry", val |-> e]
Raise(e)  == [kind |-> e]
IsError(o) == o.kind \in {"NameError", "KeyError", "ZeroDivisionError"}

\* mesh_dict: key -> [grid spacing (km), number of horizontal grid columns];
\* a spacing is <<numerator, denominator>>, so 3.75 is <<15, 4>>
MeshTable ==
    [k \in {"3km", "3.75km", "7.5km", "15km", "30km", "120km",
            "15-3km-ell", "15-3km-cir"} |->
       CASE k = "3km"        -> << <<3, 1>>,   65536002 >>
         [] k = "3.75km"     -> << <<15, 4>>,  41943042 >>
         [] k = "7.5km"      -> << <<15, 2>>,  10485762 >>
         [] k = "15km"       -> << <<15, 1>>,  2621442 >>
         [] k = "30km"       -> << <<30, 1>>,  655362 >>
         [] k = "120km"      -> << <<120, 1>>, 40962 >>
         [] k = "15-3km-ell" -> << <<3, 1>>,   8060930 >>
         [] k = "15-3km-cir" -> << <<3, 1>>,   6488066 >>]

\* Subscript with a fallback: an absent key yields the "3.75km" entry
SubscriptWithDefault(g, key) ==
    IF ~Bound(g, "mesh_dict") THEN Raise("NameError")
    ELSE IF key \notin DOMAIN g["mesh_dict"].v
    THEN Entry(g["mesh_dict"].v["3.75km"])
    ELSE Entry(g["mesh_dict"].v[key])

\* the subscript g["mesh_dict"][key]
Subscript(g, key) ==
    IF ~Bound(g, "mesh_dict") THEN Raise("NameError")
    ELSE IF key \notin DOMAIN g["mesh_dict"].v THEN Raise("KeyError")
    ELSE Entry(g["mesh_dict"].v[key])

\* ------------------------------------------------------------------------
\* The two functions.  g is the function's __globals__: the namespace the
\* body's free names are looked up in at the time of the call.
\* ------------------------------------------------------------------------

calculate_core_hours_per_time_step_per_grid_point(g, total_core_hours_used, time_step_seconds, num_grid_columns, num_vertical_levels, simulation_days) ==
    LET total_seconds == simulation_days * 24 * 3600
    IN  IF time_step_seconds = 0 THEN Raise("ZeroDivisionError")
        ELSE IF ~Bound(g, "grid_columns") \/ ~Bound(g, "vertical_levels")
        THEN Raise("NameError")
        ELSE
        LET total_time_steps  == RatDiv(RatInt(total_seconds),
                                        RatInt(time_step_seconds))
            total_grid_points == RatMul(RatInt(g["grid_columns"].v),
                                        RatInt(g["vertical_levels"].v))
            divisor           == RatMul(total_time_steps, total_grid_points)
        IN  IF divisor.sgn = 0 THEN Raise("ZeroDivisionError")
            ELSE Value(RatDiv(RatInt(total_core_hours_used), divisor))

\* calculate_core_hours with total_time_steps = total_seconds * time_step_seconds
calculate_core_hours_times_step(time_step_seconds, num_grid_columns, num_vertical_levels, simulation_days, core_hours_per_time_step_per_grid_point) ==
    LET total_seconds == simulation_days * 24 * 3600
        total_time_steps  == RatMul(RatInt(total_seconds),
                                    RatInt(time_step_seconds))
        total_grid_points == RatMul(RatInt(num_grid_columns),
                                    RatInt(num_vertical_levels))
    IN  Value(RatMul(RatMul(total_time_steps, total_grid_points),
                     core_hours_per_time_step_per_grid_point))

\* calculate_core_hours with total_grid_points = num_grid_columns
calculate_core_hours_columns_only(time_step_seconds, num_grid_columns, num_vertical_levels, simulation_days, core_hours_per_time_step_per_grid_point) ==
    LET total_seconds == simulation_days * 24 * 3600
    IN  IF time_step_seconds = 0 THEN Raise("ZeroDivisionError")
        ELSE
        LET total_time_steps  == RatDiv(RatInt(total_seconds),
                                        RatInt(time_step_seconds))
            total_grid_points == RatInt(num_grid_columns)
        IN  Value(RatMul(RatMul(total_time_steps, total_grid_points),
                         core_hours_per_time_step_per_grid_point))

\* core_hours_per_time_step_per_grid_point is a float (a rational here)
calculate_core_hours(time_step_seconds, num_grid_columns, num_vertical_levels, simulation_days, core_hours_per_time_step_per_grid_point) ==
    LET total_seconds == simulation_days * 24 * 3600
    IN  IF time_step_seconds = 0 THEN Raise("ZeroDivisionError")
        ELSE
        LET total_time_steps  == RatDiv(RatInt(total_seconds),
                                        RatInt(time_step_seconds))
            total_grid_points == RatMul(RatInt(num_grid_columns),
                                        RatInt(num_vertical_levels))
        IN  Value(RatMul(RatMul(total_time_steps, total_grid_points),
                         core_hours_per_time_step_per_grid_point))

\* ------------------------------------------------------------------------
\* The storage formulas of the last cell
\* ------------------------------------------------------------------------

\* storage_2d_bits with + 32 for * 32
storage_2d_bits_plus(nvars_2d, grid_columns, simulation_length, outputs_per_day_2d) ==
    BigAdd(BigMul(BigMul(BigMul(BigFromNat(nvars_2d), BigFromNat(grid_columns)),
                         BigFromNat(simulation_length)),
                  BigFromNat(outputs_per_day_2d)),
           BigFromNat(32))

\* (nvars_2d * grid_columns * simulation_length * outputs_per_day_2d) * 32
storage_2d_bits(nvars_2d, grid_columns, simulation_length, outputs_per_day_2d) ==
    BigMul(BigMul(BigMul(BigMul(BigFromNat(nvars_2d), BigFromNat(grid_columns)),
                         BigFromNat(simulation_length)),
                  BigFromNat(outputs_per_day_2d)),
           BigFromNat(32))

\* storage_3d_bits without the vertical levels
storage_3d_bits_no_levels(nvars_3d, grid_columns, vertical_levels, simulation_length, outputs_per_day_3d) ==
    BigMul(BigMul(BigMul(BigMul(BigFromNat(nvars_3d),
                                BigFromNat(grid_columns)),
                         BigFromNat(simulation_length)),
                  BigFromNat(outputs_per_day_3d)),
           BigFromNat(32))

\* (nvars_3d * grid_columns * vertical_levels * simulation_length
\*  * outputs_per_day_3d) * 32
storage_3d_bits(nvars_3d, grid_columns, vertical_levels, simulation_length, outputs_per_day_3d) ==
    BigMul(BigMul(BigMul(BigMul(BigMul(BigFromNat(nvars_3d),
                                       BigFromNat(grid_columns)),
                                BigFromNat(vertical_levels)),
                         BigFromNat(simulation_length)),
                  BigFromNat(outputs_per_day_3d)),
           BigFromNat(32))

\* the literal 1.25e-13 = 125 / 10^15 (terabytes per bit)
TBPerBit == [sgn |-> 1, num |-> <<125>>, den |-> <<0, 0, 0, 1000>>]

\* bits * 1.25e-13
InTB(bits) ==
    RatMul([sgn |-> IF bits = <<>> THEN 0 ELSE 1, num |-> bits, den |-> <<1>>],
           TBPerBit)

\* the literal 2.5639208763925117e-09 = 25639208763925117 / 10^25
EfficiencyLiteral ==
    [sgn |-> 1,
     num |-> <<5117, 6392, 2087, 5639, 2>>,
     den |-> <<0, 0, 0, 0, 0, 0, 10>>]

\* ------------------------------------------------------------------------
\* Inputs
\* ------------------------------------------------------------------------

\* a call's arguments are the efficiency example's, with at most one of
\* them replaced by a value in -1..MaxArg
MaxArg == 1

\* largest total_core_hours_used of a call
MaxCoreHours == 2

\* largest factor the storage inputs are scaled by
MaxScale == 3

\* <<time_step_seconds, num_grid_columns, num_vertical_levels,
\*   simulation_days>> of the efficiency example
ExampleArgs == <<20, 41943042, 127, 4>>

CallArgs ==
    {ExampleArgs} \cup
    {[ExampleArgs EXCEPT ![i] = x] : i \in 1..4, x \in -1..MaxArg}

\* <<nvars_2d, nvars_3d, outputs_per_day_2d, outputs_per_day_3d>> of the
\* storage cell as written
DocumentedOutputs == <<15, 9, 24, 8>>

\* the output specifications the storage cell is run with: the documented
\* one with at most one entry scaled by a factor in 0..MaxScale
OutputSpecs ==
    {[DocumentedOutputs EXCEPT ![i] = k * DocumentedOutputs[i]] :
        i \in 1..4, k \in 0..MaxScale}

\* the mesh presets the core-hours example is run with: `mesh` is the
\* cell's input (the notebook's text: "these predefined values can be used,
\* or values from other simulations can be substituted"), chosen here among
\* keys of the table, the documented one included
MeshChoices == {"3.75km", "3km"}

\* the keys mesh_dict is subscripted with ("1km" is not in the table)
LookupKeys == DOMAIN MeshTable \cup {"1km"}

\* ------------------------------------------------------------------------
\* Initial state: a fresh kernel
\* ------------------------------------------------------------------------

Init ==
    /\ ns = [n \in Names |-> Undef]
    /\ last = [op |-> "none", args |-> <<>>, out |-> Ok, from |-> 0]
    /\ lastExample = "none"

\* ------------------------------------------------------------------------
\* The code cells
\* ------------------------------------------------------------------------

\* cell 1: import numpy as np
RunImportCell ==
    /\ ns' = [ns EXCEPT !["np"] = Module]
    /\ last' = [op |-> "import_cell", args |-> <<>>, out |-> Ok, from |-> 0]
    /\ UNCHANGED lastExample

\* EfficiencyCellAssigns that also stores the level count in the table
EfficiencyCellAssignsStoring(g) ==
    LET g1 == [g EXCEPT
                 !["calculate_core_hours_per_time_step_per_grid_point"] = Fn,
                 !["mesh_dict"] =
                     PyDict([MeshTable EXCEPT !["3.75km"][2] = 127]),
                 !["dx"] = PyStr("3.75km"),
                 !["total_core_hours_used"] = PyInt(236000),
                 !["time_step"] = PyInt(20)]
    IN  [g1 EXCEPT
           !["grid_columns"] = PyInt(MeshTable["3.75km"][2]),
           !["vertical_levels"] = PyInt(127),
           !["simulation_length"] = PyInt(4)]

\* EfficiencyCellAssigns with the core-hours example's simulation_length
EfficiencyCellAssignsYear(g) ==
    LET g1 == [g EXCEPT
                 !["calculate_core_hours_per_time_step_per_grid_point"] = Fn,
                 !["mesh_dict"] = PyDict(MeshTable),
                 !["dx"] = PyStr("3.75km"),
                 !["total_core_hours_used"] = PyInt(236000),
                 !["time_step"] = PyInt(20)]
    IN  [g1 EXCEPT
           !["grid_columns"] = PyInt(Subscript(g1, "3.75km").val[2]),
           !["vertical_levels"] = PyInt(127),
           !["simulation_length"] = PyInt(365)]

\* the namespace after the assignments of the efficiency example
EfficiencyCellAssigns(g) ==
    LET g1 == [g EXCEPT
                 !["calculate_core_hours_per_time_step_per_grid_point"] = Fn,
                 !["mesh_dict"] = PyDict(MeshTable),
                 !["dx"] = PyStr("3.75km"),
                 !["total_core_hours_used"] = PyInt(236000),
                 !["time_step"] = PyInt(20)]
    IN  [g1 EXCEPT
           !["grid_columns"] = PyInt(Subscript(g1, "3.75km").val[2]),
           !["vertical_levels"] = PyInt(127),
           !["simulation_length"] = PyInt(4)]

\* cell 2: defines the efficiency function and mesh_dict, then runs the
\* efficiency example
RunEfficiencyCell ==
    LET g2  == EfficiencyCellAssigns(ns)
        res == calculate_core_hours_per_time_step_per_grid_point(
                   g2, g2["total_core_hours_used"].v, g2["time_step"].v,
                   g2["grid_columns"].v, g2["vertical_levels"].v,
                   g2["simulation_length"].v)
    IN  /\ ns' = IF IsError(res) THEN g2
                 ELSE [g2 EXCEPT
                   !["core_hours_per_time_step_per_grid_point_calculated"] =
                       PyNum(res.val)]
        /\ last' = [op |-> "efficiency_cell", args |-> <<>>, out |-> res,
                    from |-> 0]
        /\ lastExample' = "efficiency"

\* cell 3: defines calculate_core_hours, then runs the core-hours example
\* for the mesh the user selects.  (The cell's printed line rounds a value
\* that sits on a rounding tie, which floating point decides; its stdout
\* is not modelled.)
RunCoreHoursCell(m) ==
    LET g1 == [ns EXCEPT
                 !["np"] = Module,
                 !["calculate_core_hours"] = Fn,
                 !["mesh"] = PyStr(m),
                 !["time_step"] = PyInt(20)]
        e  == Subscript(g1, m)
        g2 == [g1 EXCEPT
                 !["dx"] = PyNum([sgn |-> 1,
                                  num |-> BigFromNat(e.val[1][1]),
                                  den |-> BigFromNat(e.val[1][2])]),
                 !["grid_columns"] = PyInt(e.val[2]),
                 !["vertical_levels"] = PyInt(127),
                 !["simulation_length"] = PyInt(365),
                 !["core_hours_per_time_step_per_grid_point"] =
                     PyNum(EfficiencyLiteral)]
        res == calculate_core_hours(
                   g2["time_step"].v, g2["grid_columns"].v,
                   g2["vertical_levels"].v, g2["simulation_length"].v,
                   g2["core_hours_per_time_step_per_grid_point"].v)
    IN  /\ ns' = IF IsError(e) THEN g1
                 ELSE IF IsError(res) THEN g2
                 ELSE [g2 EXCEPT !["total_core_hours"] = PyNum(res.val)]
        /\ last' = [op |-> "core_hours_cell", args |-> <<m>>,
                    out |-> IF IsError(e) THEN e ELSE res, from |-> 0]
        /\ lastExample' = "core_hours"

\* cell 4: the storage estimate for the output specification the cell's first
\* four assignments give, from the module variables grid_columns,
\* vertical_levels and simulation_length; out.printed are the printed values
\* in hundredths of a terabyte
RunStorageCell(nvars_2d, nvars_3d, outputs_per_day_2d, outputs_per_day_3d) ==
    LET g1 == [ns EXCEPT
                 !["nvars_2d"] = PyInt(nvars_2d),
                 !["nvars_3d"] = PyInt(nvars_3d),
                 !["outputs_per_day_2d"] = PyInt(outputs_per_day_2d),
                 !["outputs_per_day_3d"] = PyInt(outputs_per_day_3d)]
        s2 == storage_2d_bits(g1["nvars_2d"].v, g1["grid_columns"].v,
                              g1["simulation_length"].v,
                              g1["outputs_per_day_2d"].v)
        s3 == storage_3d_bits(g1["nvars_3d"].v, g1["grid_columns"].v,
                              g1["vertical_levels"].v,
                              g1["simulation_length"].v,
                              g1["outputs_per_day_3d"].v)
        g2 == [g1 EXCEPT !["storage_2d"] = PyBig(s2),
                         !["storage_3d"] = PyBig(s3)]
        p2 == Round2(InTB(s2))
        p3 == Round2(InTB(s3))
        args == <<nvars_2d, nvars_3d, outputs_per_day_2d, outputs_per_day_3d>>
    IN  IF ~Bound(g1, "grid_columns") \/ ~Bound(g1, "simulation_length")
           \/ ~Bound(g1, "vertical_levels")
        THEN /\ ns' = g1
             /\ last' = [op |-> "storage_cell", args |-> args,
                         out |-> [kind |-> "NameError", printed |-> <<>>],
                         from |-> 0]
             /\ UNCHANGED lastExample
        ELSE /\ ns' = g2
             /\ last' = [op |-> "storage_cell", args |-> args,
                         out |-> IF ~Bound(g2, "np")
                                 THEN [kind |-> "NameError",
                                       printed |-> <<p2, p3>>]
                                 ELSE [kind |-> "ok",
                                       printed |-> <<p2, p3,
                                         Round2(RatAdd(InTB(s2), InTB(s3)))>>],
                         from |-> 0]
             /\ UNCHANGED lastExample

\* ------------------------------------------------------------------------
\* Calls of the two functions and subscripts of mesh_dict.  A call made
\* before the cell that defines the function has run raises NameError.
\* ------------------------------------------------------------------------

CallEfficiency(H, dt, nc, nv, days) ==
    /\ last' = [op |-> "efficiency", args |-> <<H, dt, nc, nv, days>>,
                out |-> IF ~Bound(ns, "calculate_core_hours_per_time_step_per_grid_point")
                        THEN Raise("NameError")
                        ELSE calculate_core_hours_per_time_step_per_grid_point(
                                 ns, H, dt, nc, nv, days),
                from |-> 0]
    /\ UNCHANGED <<ns, lastExample>>

\* from is the total_core_hours_used of the efficiency call whose result is
\* passed as c, and 0 when c is not the result of a call
CallCoreHours(dt, nc, nv, days, c, from) ==
    /\ last' = [op |-> "core_hours", args |-> <<dt, nc, nv, days, c>>,
                out |-> IF ~Bound(ns, "calculate_core_hours")
                        THEN Raise("NameError")
                        ELSE calculate_core_hours(dt, nc, nv, days, c),
                from |-> from]
    /\ UNCHANGED <<ns, lastExample>>

\* calculate_core_hours on the arguments and the result of the efficiency
\* call just made
ChainCoreHours ==
    /\ last.op = "efficiency"
    /\ last.out.kind = "value"
    /\ CallCoreHours(last.args[2], last.args[3], last.args[4], last.args[5],
                     last.out.val, last.args[1])

\* mesh_dict[key]
Lookup(key) ==
    /\ last' = [op |-> "lookup", args |-> <<key>>, out |-> Subscript(ns, key),
                from |-> 0]
    /\ UNCHANGED <<ns, lastExample>>

\* the efficiencies calculate_core_hours is called with
Efficiencies == {EfficiencyLiteral}

StorageCellAsWritten ==
    RunStorageCell(DocumentedOutputs[1], DocumentedOutputs[2],
                   DocumentedOutputs[3], DocumentedOutputs[4])

\* the notebook: its cells in any order, the storage cell as written, and
\* calls of its functions
Next ==
    \/ RunImportCell
    \/ RunEfficiencyCell
    \/ \E m \in MeshChoices : RunCoreHoursCell(m)
    \/ StorageCellAsWritten
    \/ \E H \in 1..MaxCoreHours, a \in CallArgs :
         CallEfficiency(H, a[1], a[2], a[3], a[4])
    \/ \E a \in CallArgs, c \in Efficiencies :
         CallCoreHours(a[1], a[2], a[3], a[4], c, 0)
    \/ ChainCoreHours
    \/ \E key \in LookupKeys : Lookup(key)

Spec == Init /\ [][Next]_vars

\* the cells alone, in any order, the storage cell with every output
\* specification
NextCells ==
    \/ RunImportCell
    \/ RunEfficiencyCell
    \/ \E m \in MeshChoices : RunCoreHoursCell(m)
    \/ \E o \in OutputSpecs : RunStorageCell(o[1], o[2], o[3], o[4])

SpecCells == Init /\ [][NextCells]_vars

\* ------------------------------------------------------------------------
\* The documented formulas, from a call's own arguments
\* ------------------------------------------------------------------------

EffName == "calculate_core_hours_per_time_step_per_grid_point"

\* totalSteps = simulationDays * 86400 / timeStepSeconds
DocTotalSteps(dt, days) == RatDiv(RatInt(days * 86400), RatInt(dt))

\* totalGridPoints = gridColumns * verticalLevels
DocGridPoints(nc, nv) == RatMul(RatInt(nc), RatInt(nv))

\* totalCoreHours / (totalSteps * totalGridPoints)
DocEfficiency(H, dt, nc, nv, days) ==
    RatDiv(RatInt(H), RatMul(DocTotalSteps(dt, days), DocGridPoints(nc, nv)))

\* totalSteps * totalGridPoints * coreHoursPerStepPerPoint
DocCoreHours(dt, nc, nv, days, c) ==
    RatMul(RatMul(DocTotalSteps(dt, days), DocGridPoints(nc, nv)), c)

AllPositive(a) == \A i \in 1..4 : a[i] > 0

\* the last execution was a call of the efficiency function, made after its
\* definition, with arguments <<H, dt, nc, nv, days>>
EfficiencyCalled == last.op = "efficiency" /\ Bound(ns, EffName)

\* the last execution was a call of calculate_core_hours, made after its
\* definition, with arguments <<dt, nc, nv, days, c>>
CoreHoursCalled == last.op = "core_hours" /\ Bound(ns, "calculate_core_hours")

SameOutcome(o1, o2) ==
    /\ o1.kind = o2.kind
    /\ o1.kind = "value" => RatEq(o1.val, o2.val)

\* ------------------------------------------------------------------------
\* C1
\* ------------------------------------------------------------------------

\* C1 (as claimed): round-trip law.  For positive H, dt, nc, nv and days,
\* calculate_core_hours(dt, nc, nv, days, e), with e the result of
\* calculate_core_hours_per_time_step_per_grid_point(H, dt, nc, nv, days),
\* returns H.
C1_RoundTrip ==
    (CoreHoursCalled /\ last.from # 0 /\ AllPositive(last.args))
        => /\ last.out.kind = "value"
           /\ RatEq(last.out.val, RatInt(last.from))

\* ------------------------------------------------------------------------
\* C2
\* ------------------------------------------------------------------------

\* C2 (as claimed): a call of the efficiency function with positive
\* arguments returns totalCoreHours / ((simulationDays * 86400 /
\* timeStepSeconds) * (gridColumns * verticalLevels)), with gridColumns and
\* verticalLevels the call's arguments.
C2_EfficiencyFromArguments ==
    (EfficiencyCalled /\ \A i \in 1..5 : last.args[i] > 0)
        => /\ last.out.kind = "value"
           /\ RatEq(last.out.val,
                    DocEfficiency(last.args[1], last.args[2], last.args[3],
                                  last.args[4], last.args[5]))

\* ------------------------------------------------------------------------
\* C3
\* ------------------------------------------------------------------------

\* <<dt, nc, nv, days>> of the last call
CallDims ==
    IF last.op = "efficiency"
    THEN <<last.args[2], last.args[3], last.args[4], last.args[5]>>
    ELSE <<last.args[1], last.args[2], last.args[3], last.args[4]>>

SomeNonPositive == \E i \in 1..4 : CallDims[i] <= 0

C4_CallsIndependentOfState ==
    [][/\ (Bound(ns, EffName) /\ Bound(ns', EffName)) =>
            \A H \in 1..MaxCoreHours, a \in CallArgs :
                SameOutcome(
                    calculate_core_hours_per_time_step_per_grid_point(
                        ns, H, a[1], a[2], a[3], a[4]),
                    calculate_core_hours_per_time_step_per_grid_point(
                        ns', H, a[1], a[2], a[3], a[4]))
       /\ (Bound(ns, "mesh_dict") /\ Bound(ns', "mesh_dict")) =>
            \A key \in LookupKeys : Subscript(ns, key) = Subscript(ns', key)
      ]_vars

\* ------------------------------------------------------------------------
\* C5
\* ------------------------------------------------------------------------

\* the last execution subscripted the table, after its definition
LookedUp == last.op = "lookup" /\ Bound(ns, "mesh_dict")

\* C5: a subscript with a key that is not in the table raises KeyError and
\* yields no entry; a subscript with one of the eight keys yields the stored
\* [spacing, columns] entry, "3km" -> [3, 65536002] and
\* "3.75km" -> [3.75, 41943042].
C5_Lookup ==
    LookedUp =>
        LET key == last.args[1]
            tbl == ns["mesh_dict"].v
        IN  /\ Cardinality(DOMAIN tbl) = 8
            /\ key \notin DOMAIN tbl => last.out = Raise("KeyError")
            /\ key \in DOMAIN tbl => last.out = Entry(tbl[key])
            /\ key = "3km" => last.out = Entry(<< <<3, 1>>, 65536002 >>)
            /\ key = "3.75km" => last.out = Entry(<< <<15, 4>>, 41943042 >>)

\* C5 witness: a key that is not in the table has been looked up
C5_Witness ==
    /\ LookedUp
    /\ last.args[1] = "1km"
    /\ last.out = Raise("KeyError")

\* ------------------------------------------------------------------------
\* C6
\* ------------------------------------------------------------------------

StorageComputed == last.op = "storage_cell" /\ last.out.printed # <<>>

\* C7: the storage the cell computed is linear in nvars_2d,
\* outputs_per_day_2d, nvars_3d, outputs_per_day_3d and simulation_length
\* taken separately: scaling one of them by k scales the affected storage by
\* k; and the 2D (3D) storage is zero when nvars_2d or outputs_per_day_2d
\* (nvars_3d or outputs_per_day_3d) is zero.
C7_StorageLinear ==
    StorageComputed =>
        LET n2 == last.args[1]
            n3 == last.args[2]
            o2 == last.args[3]
            o3 == last.args[4]
            gc == ns["grid_columns"].v
            vl == ns["vertical_levels"].v
            sl == ns["simulation_length"].v
            S2 == InTB(ns["storage_2d"].v)
            S3 == InTB(ns["storage_3d"].v)
        IN  /\ \A k \in 0..MaxScale :
                 /\ RatEq(InTB(storage_2d_bits(k * n2, gc, sl, o2)),
                          RatMul(RatInt(k), S2))
                 /\ RatEq(InTB(storage_2d_bits(n2, gc, sl, k * o2)),
                          RatMul(RatInt(k), S2))
                 /\ RatEq(InTB(storage_2d_bits(n2, gc, k * sl, o2)),
                          RatMul(RatInt(k), S2))
                 /\ RatEq(InTB(storage_3d_bits(k * n3, gc, vl, sl, o3)),
                          RatMul(RatInt(k), S3))
                 /\ RatEq(InTB(storage_3d_bits(n3, gc, vl, sl, k * o3)),
                          RatMul(RatInt(k), S3))
                 /\ RatEq(InTB(storage_3d_bits(n3, gc, vl, k * sl, o3)),
                          RatMul(RatInt(k), S3))
            /\ (n2 = 0 \/ o2 = 0) => S2 = RatZero /\ last.out.printed[1] = 0
            /\ (n3 = 0 \/ o3 = 0) => S3 = RatZero /\ last.out.printed[2] = 0

\* C7 witness: the cell has run with no 2D variables and with 3D variables
C7_Witness ==
    /\ StorageComputed
    /\ last.args[1] = 0
    /\ ns["storage_2d"].v = <<>>
    /\ ns["storage_3d"].v # <<>>

\* ------------------------------------------------------------------------
\* C8
\* ------------------------------------------------------------------------

\* the storage cell has just run on the documented scenario
DocumentedScenario ==
    /\ StorageComputed
    /\ last.args = <<15, 9, 24, 8>>
    /\ ns["grid_columns"].v = 41943042
    /\ ns["vertical_levels"].v = 127
    /\ ns["simulation_length"].v = 365

C9_TableReadOnly ==
    Bound(ns, "mesh_dict") =>
        /\ ns["mesh_dict"].v = MeshTable
        /\ Cardinality(DOMAIN ns["mesh_dict"].v) = 8
        /\ ns["mesh_dict"].v["3km"] = << <<3, 1>>, 65536002 >>
        /\ ns["mesh_dict"].v["3.75km"] = << <<15, 4>>, 41943042 >>

\* C9 witness: the table has been subscripted after both examples and the
\* storage cell have run
C9_Witness ==
    /\ LookedUp
    /\ Bound(ns, "total_core_hours")
    /\ Bound(ns, "storage_3d")
    /\ Bound(ns, "core_hours_per_time_step_per_grid_point_calculated")

\* ------------------------------------------------------------------------
\* C10
\* ------------------------------------------------------------------------

\* a * b * c * d * e * 32 on unbounded integers
Bits(a, b, c, d, e) ==
    BigMul(BigMul(BigMul(BigMul(BigMul(BigFromNat(a), BigFromNat(b)),
                                BigFromNat(c)), BigFromNat(d)),
                  BigFromNat(e)), <<32>>)

\* C10: the storage cell computes nothing before an example cell has run;
\* when it computes, it applies the storage formulas to the grid_columns,
\* vertical_levels and simulation_length the most recently executed example
\* cell assigned: 41943042 columns and 4 days after the efficiency example,
\* the selected mesh's columns and 365 days after the core-hours example.
C10_StorageFromLastExample ==
    last.op = "storage_cell" =>
        /\ lastExample = "none" =>
             /\ last.out = [kind |-> "NameError", printed |-> <<>>]
             /\ ~Bound(ns, "storage_2d")
             /\ ~Bound(ns, "storage_3d")
        /\ StorageComputed =>
             LET sl == IF lastExample = "efficiency" THEN 4 ELSE 365
                 gc == IF lastExample = "efficiency" THEN 41943042
                       ELSE MeshTable[ns["mesh"].v][2]
             IN  /\ lastExample \in {"efficiency", "core_hours"}
                 /\ ns["simulation_length"].v = sl
                 /\ ns["grid_columns"].v = gc
                 /\ ns["storage_2d"].v =
                        Bits(last.args[1], gc, 1, sl, last.args[3])
                 /\ ns["storage_3d"].v =
                        Bits(last.args[2], gc, 127, sl, last.args[4])

\* C10 witness: the storage cell has computed with 4 days, the efficiency
\* example having run after the core-hours example
C10_Witness ==
    /\ StorageComputed
    /\ lastExample = "efficiency"
    /\ Bound(ns, "total_core_hours")
    /\ ns["simulation_length"].v = 4

====
